---- MODULE Spec2Model ----
(***************************************************************************)
(* A model of network/network.go: the Network of a feed-forward neural     *)
(* net, its construction, forward and backward propagation, prediction,    *)
(* error computation and the training loop.                                *)
(*                                                                         *)
(* float64 values are fixed-point integers: the integer x stands for the   *)
(* real x / Scale.  A Matrix ([][]float64) is a sequence of rows; the      *)
(* operators At and Put keep the 0-based indices of the Go code.           *)
(*                                                                         *)
(* The matrix package (Matrix, DotProduct, Sum, ...) is not part of the    *)
(* modelled file.  Its operators are written from its interface contract:  *)
(* shapes must match or the call panics.  network.go discards the results  *)
(* of Sum and ApplyFunction in FeedForward (lines 62-63), so these two     *)
(* write their result into their first argument; the callers below model   *)
(* that write with Store wherever the first argument is a matrix the       *)
(* Network still holds.                                                    *)
(***************************************************************************)
EXTENDS Integers, Sequences, FiniteSets, TLC

VARIABLES args, net, shared, err, fb, calls, pre, lastOp, ret, ops

vars == <<args, net, shared, err, fb, calls, pre, lastOp, ret, ops>>

\* ---------------------------------------------------------------- bounds
MaxBatch == 2
MaxWidth == 2
MaxHidden == 2
MaxSeed == 1
MaxIter == 1
MaxOps == 2

\* ------------------------------------------------------------ arithmetic
\* The fixed-point unit: Scale stands for 1.0.
Scale == 16

\* float64 multiplication of two fixed-point values (rounded toward zero).
Mul(a, b) == IF a * b >= 0 THEN (a * b) \div Scale ELSE -((-(a * b)) \div Scale)

\* float64 division of a fixed-point value by a count (rounded toward zero).
DivCount(a, n) == IF a >= 0 THEN a \div n ELSE -((-a) \div n)

\* 1/(1+e^-x) rounded to the nearest multiple of 1/Scale.  SigmoidSteps[v] is
\* the least x, in units of 1/Scale, whose sigmoid rounds to 1/2 + v/Scale or
\* more: Scale * ln(p / (1 - p)) at p = 1/2 + (v - 1/2)/Scale, rounded up.
SigmoidSteps == <<3, 7, 11, 16, 21, 27, 37, 55>>

StepsUpTo(x) == Cardinality({v \in 1..Len(SigmoidSteps) : SigmoidSteps[v] <= x})

Sigmoid ==
  [x \in Int |-> IF x >= 0 THEN Scale \div 2 + StepsUpTo(x) ELSE Scale \div 2 - StepsUpTo(-x)]

SubstractOne == [x \in Int |-> Scale - x]

MultiplyByTwo == [x \in Int |-> 2 * x]

\* -------------------------------------------------------------- matrices
At(s, i) == s[i + 1]

Put(s, i, v) == [s EXCEPT ![i + 1] = v]

InRange(s, i) == i >= 0 /\ i < Len(s)

Rows(m) == Len(m)

Columns(m) == Len(m[1])

SameShape(a, b) == Rows(a) = Rows(b) /\ Columns(a) = Columns(b)

CreateMatrix(r, c) == [i \in 1..r |-> [j \in 1..c |-> 0]]

\* The pseudo-random fill drawn from the generator's state `seed`: values in
\* [-1, 1]; the state 0 draws zeros.
RandomMatrix(r, c, seed) ==
  [i \in 1..r |-> [j \in 1..c |->
     ((seed * 7 * (i + j) + Scale) % (2 * Scale + 1)) - Scale]]

RECURSIVE DotSum(_, _, _, _, _)
DotSum(a, b, i, j, k) ==
  IF k = 0 THEN 0 ELSE Mul(a[i][k], b[k][j]) + DotSum(a, b, i, j, k - 1)

DotProduct(a, b) ==
  [i \in 1..Rows(a) |-> [j \in 1..Columns(b) |-> DotSum(a, b, i, j, Columns(a))]]

Transpose(a) == [j \in 1..Columns(a) |-> [i \in 1..Rows(a) |-> a[i][j]]]

Sum(a, b) == [i \in 1..Rows(a) |-> [j \in 1..Columns(a) |-> a[i][j] + b[i][j]]]

Difference(a, b) == [i \in 1..Rows(a) |-> [j \in 1..Columns(a) |-> a[i][j] - b[i][j]]]

Multiplication(a, b) ==
  [i \in 1..Rows(a) |-> [j \in 1..Columns(a) |-> Mul(a[i][j], b[i][j])]]

ApplyFunction(a, fn) == [i \in 1..Rows(a) |-> [j \in 1..Columns(a) |-> fn[a[i][j]]]]

ApplyRate(a, rate) == [i \in 1..Rows(a) |-> [j \in 1..Columns(a) |-> Mul(a[i][j], rate)]]

\* ------------------------------------------------------- the call's state
\* s is the state an operation works on: the Network, whether Layers[last]
\* and Output are still the same slice (shared), the panic raised so far,
\* and the record of the last backward pass and of the calls made.
NoNetwork == [Layers |-> <<>>, Weights |-> <<>>, Biases |-> <<>>, Output |-> <<>>, Rate |-> 0]

NoPass == [pre |-> NoNetwork, events |-> <<>>]

Panic(s, what) == [s EXCEPT !.err = what]

\* A write through the slice held in Layers[l]: Output sees it while the two
\* are the same slice.
Store(s, l, m) ==
  [s EXCEPT !.net.Layers = Put(@, l, m),
            !.net.Output = IF s.shared /\ l = Len(s.net.Layers) - 1 THEN m ELSE @]

\* Layers[l] = m: the slot now holds another slice.
Rebind(s, l, m) ==
  [s EXCEPT !.net.Layers = Put(@, l, m),
            !.shared = IF l = Len(s.net.Layers) - 1 THEN FALSE ELSE @]

Called(s, name) == [s EXCEPT !.calls = Append(@, name)]

\* ---------------------------------------------------------- CreateNetwork
RECURSIVE HiddenLayers(_, _, _)
HiddenLayers(input, hiddensNodes, k) ==
  IF k = 0 THEN <<>>
  ELSE Append(HiddenLayers(input, hiddensNodes, k - 1),
              CreateMatrix(Len(input), hiddensNodes[k]))

CreateLayers(input, output, hiddensNodes) ==
  <<input>> \o HiddenLayers(input, hiddensNodes, Len(hiddensNodes)) \o <<output>>

CreateWeights(layers, seed) ==
  [k \in 1..(Len(layers) - 1) |->
     RandomMatrix(Columns(At(layers, k - 1)), Columns(At(layers, k)), seed * (2 * k - 1))]

\* CreateBiases with the row count taken from Columns(layers[i]).
CreateBiases_ColumnsForRows(layers, seed) ==
  [k \in 1..(Len(layers) - 1) |->
     RandomMatrix(Columns(At(layers, k - 1)), Columns(At(layers, k)), seed * 2 * k)]

CreateBiases(layers, seed) ==
  [k \in 1..(Len(layers) - 1) |->
     RandomMatrix(Rows(At(layers, k - 1)), Columns(At(layers, k)), seed * 2 * k)]

CreateNetwork(rate, input, output, hiddensNodes, seed) ==
  LET layers == CreateLayers(input, output, hiddensNodes)
  IN [Layers |-> layers,
      Weights |-> CreateWeights(layers, seed),
      Biases |-> CreateBiases(layers, seed),
      Output |-> output,
      Rate |-> rate]

\* ------------------------------------------------------------ FeedForward
\* FeedForwardStep with Sum's arguments exchanged: the sum lands in Biases[i].
FeedForwardStep_SumIntoBiases(s, i) ==
  LET layer == At(s.net.Layers, i)
      weights == At(s.net.Weights, i)
      biases == At(s.net.Biases, i)
  IN IF Columns(layer) # Rows(weights) THEN Panic(s, "shape")
     ELSE LET productMatrix == DotProduct(layer, weights)
          IN IF ~SameShape(productMatrix, biases) THEN Panic(s, "shape")
             ELSE [Rebind(s, i + 1, ApplyFunction(productMatrix, Sigmoid))
                     EXCEPT !.net.Biases = Put(@, i, Sum(biases, productMatrix))]

FeedForwardStep(s, i) ==
  IF ~(InRange(s.net.Layers, i + 1) /\ InRange(s.net.Weights, i) /\ InRange(s.net.Biases, i))
  THEN Panic(s, "index")
  ELSE
    LET layer == At(s.net.Layers, i)
        weights == At(s.net.Weights, i)
        biases == At(s.net.Biases, i)
    IN IF Columns(layer) # Rows(weights) THEN Panic(s, "shape")
       ELSE LET productMatrix == DotProduct(layer, weights)
            IN IF ~SameShape(productMatrix, biases) THEN Panic(s, "shape")
               ELSE Rebind(s, i + 1, ApplyFunction(Sum(productMatrix, biases), Sigmoid))

RECURSIVE FeedForwardLoop(_, _)
FeedForwardLoop(s, i) ==
  IF s.err # "none" \/ ~(i < Len(s.net.Layers) - 1) THEN s
  ELSE FeedForwardLoop(FeedForwardStep(s, i), i + 1)

FeedForward(s) == FeedForwardLoop(s, 0)

\* ---------------------------------------------------------------- Predict
PredictStore(s, input) == Rebind(s, 0, <<input>>)

Predict(s, input) == FeedForward(PredictStore(s, input))

PredictResult(s) == At(s.net.Layers, Len(s.net.Layers) - 1)[1]

\* ----------------------------------------------------------- FeedBackward
\* The record of one backward pass: the Network as the call found it, and
\* the pass's events in order.  A "deriv" event is one Derivative: its
\* position p in derivatives, the layer index l it is computed for, the
\* Delta and Adjustment, and the operands as the matrix calls received them:
\* W is Weights[l] read for the transpose (<<>> for the last layer), act the
\* first operand of the activation product, prev the Layers[l-1] transposed.
\* A "write" event is one round of the update loop: p the position of the
\* Derivative applied and l the index of Weights and Biases written.
DerivEvent(p, l, delta, adjustment, W, act, prev) ==
  [ev |-> "deriv", p |-> p, l |-> l, Delta |-> delta, Adjustment |-> adjustment,
   W |-> W, act |-> act, prev |-> prev]

WriteEvent(p, l) ==
  [ev |-> "write", p |-> p, l |-> l, Delta |-> <<>>, Adjustment |-> <<>>,
   W |-> <<>>, act |-> <<>>, prev |-> <<>>]

Logged(s, e) == [s EXCEPT !.fb.events = Append(@, e)]

\* derivatives, as the events of the pass hold them
Derivatives(s) == SelectSeq(s.fb.events, LAMBDA e : e.ev = "deriv")

\* Lines 78-96: the Derivative of the last layer.
FeedBackwardLast(s0) ==
  LET s == [s0 EXCEPT !.fb = [pre |-> s0.net, events |-> <<>>]]
      output == s.net.Output
      l == Len(s.net.Layers) - 1
      lastLayer == At(s.net.Layers, l)
  IN IF ~SameShape(output, lastLayer) THEN Panic(s, "shape")
     ELSE
       LET error == Difference(output, lastLayer)
           \* ApplyFunction writes 1-x into lastLayer, the slice Layers[l] holds
           s1 == Store(s, l, ApplyFunction(lastLayer, SubstractOne))
           act == At(s1.net.Layers, l)
           sigmoidDerivative == Multiplication(act, At(s1.net.Layers, l))
           delta == Multiplication(ApplyFunction(error, MultiplyByTwo), sigmoidDerivative)
           prev == At(s1.net.Layers, l - 1)
       IN IF Rows(prev) # Rows(delta) THEN Panic(s1, "shape")
          ELSE Logged(s1, DerivEvent(0, l, delta, DotProduct(Transpose(prev), delta),
                                     <<>>, act, prev))

\* Lines 99-118: the Derivative of layer len(Layers)-2-i.
FeedBackwardStep(s, i) ==
  LET l == Len(s.net.Layers) - 2 - i
      derivatives == Derivatives(s)
  IN IF ~(InRange(derivatives, i) /\ InRange(s.net.Weights, l) /\ InRange(s.net.Layers, l - 1))
     THEN Panic(s, "index")
     ELSE
       LET previous == At(derivatives, i).Delta
           W == At(s.net.Weights, l)
       IN IF Columns(previous) # Columns(W) THEN Panic(s, "shape")
          ELSE
            LET back == DotProduct(previous, Transpose(W))
                s1 == Store(s, l, ApplyFunction(At(s.net.Layers, l), SubstractOne))
                act == At(s1.net.Layers, l)
                prev == At(s1.net.Layers, l - 1)
            IN IF ~SameShape(back, act) \/ Rows(prev) # Rows(back) THEN Panic(s1, "shape")
               ELSE
                 LET delta == Multiplication(back, Multiplication(act, At(s1.net.Layers, l)))
                 IN Logged(s1, DerivEvent(i + 1, l, delta, DotProduct(Transpose(prev), delta),
                                          W, act, prev))

\* FeedBackwardLoop running to len(Layers)-1: one round too many.
RECURSIVE FeedBackwardLoop_OneMore(_, _)
FeedBackwardLoop_OneMore(s, i) ==
  IF s.err # "none" \/ ~(i < Len(s.net.Layers) - 1) THEN s
  ELSE FeedBackwardLoop_OneMore(FeedBackwardStep(s, i), i + 1)

\* Line 98
RECURSIVE FeedBackwardLoop(_, _)
FeedBackwardLoop(s, i) ==
  IF s.err # "none" \/ ~(i < Len(s.net.Layers) - 2) THEN s
  ELSE FeedBackwardLoop(FeedBackwardStep(s, i), i + 1)

\* FeedBackwardUpdate applying the Derivative at position i to index i.
FeedBackwardUpdate_SamePosition(s, i) ==
  LET derivative == At(Derivatives(s), i)
  IN IF ~(InRange(s.net.Weights, i) /\ InRange(s.net.Biases, i)) THEN Panic(s, "index")
     ELSE IF ~(SameShape(At(s.net.Weights, i), derivative.Adjustment)
               /\ SameShape(At(s.net.Biases, i), derivative.Delta))
     THEN Panic(s, "shape")
     ELSE Logged(
            [s EXCEPT
               !.net.Weights = Put(@, i, Sum(At(s.net.Weights, i),
                                             ApplyRate(derivative.Adjustment, s.net.Rate))),
               !.net.Biases = Put(@, i, Sum(At(s.net.Biases, i),
                                            ApplyRate(derivative.Delta, s.net.Rate)))],
            WriteEvent(i, i))

\* Lines 122-124: the Derivative at position i goes to index len(derivatives)-i-1.
FeedBackwardUpdate(s, i) ==
  LET derivatives == Derivatives(s)
      derivative == At(derivatives, i)
      l == Len(derivatives) - i
  IN IF ~(InRange(s.net.Weights, l - 1) /\ InRange(s.net.Biases, l - 1)) THEN Panic(s, "index")
     ELSE IF ~(SameShape(At(s.net.Weights, l - 1), derivative.Adjustment)
               /\ SameShape(At(s.net.Biases, l - 1), derivative.Delta))
     THEN Panic(s, "shape")
     ELSE Logged(
            [s EXCEPT
               !.net.Weights = Put(@, l - 1, Sum(At(s.net.Weights, l - 1),
                                                 ApplyRate(derivative.Adjustment, s.net.Rate))),
               !.net.Biases = Put(@, l - 1, Sum(At(s.net.Biases, l - 1),
                                                ApplyRate(derivative.Delta, s.net.Rate)))],
            WriteEvent(i, l - 1))

\* Line 121
RECURSIVE FeedBackwardUpdates(_, _)
FeedBackwardUpdates(s, i) ==
  IF s.err # "none" \/ ~(i < Len(Derivatives(s))) THEN s
  ELSE FeedBackwardUpdates(FeedBackwardUpdate(s, i), i + 1)

FeedBackward(s) == FeedBackwardUpdates(FeedBackwardLoop(FeedBackwardLast(s), 0), 0)

\* ----------------------------------------------------------- ComputeError
RECURSIVE RowSum(_, _)
RowSum(row, j) == IF j = 0 THEN 0 ELSE row[j] + RowSum(row, j - 1)

RECURSIVE MatrixSum(_, _)
MatrixSum(m, i) == IF i = 0 THEN 0 ELSE RowSum(m[i], Len(m[i])) + MatrixSum(m, i - 1)

\* ErrorAverage summing lastLayer where it should sum errors.
ErrorAverage_SumsLayer(s) ==
  LET lastLayer == At(s.net.Layers, Len(s.net.Layers) - 1)
  IN DivCount(MatrixSum(lastLayer, Rows(lastLayer)), Rows(lastLayer) * Columns(lastLayer))

\* Lines 132-146, after the forward pass
ErrorAverage(s) ==
  LET lastLayer == At(s.net.Layers, Len(s.net.Layers) - 1)
      errors == Difference(s.net.Output, lastLayer)
  IN DivCount(MatrixSum(errors, Rows(errors)), Rows(errors) * Columns(errors))

ComputeError(s) == Called(FeedForward(s), "FeedForward")

ComputeErrorResult(s) ==
  IF SameShape(s.net.Output, At(s.net.Layers, Len(s.net.Layers) - 1))
  THEN <<ErrorAverage(s)>> ELSE <<>>

\* ------------------------------------------------------------------ Train
\* TrainStep that also computes the error in every iteration.
TrainStep_ErrorEachRound(s) ==
  LET s1 == Called(FeedForward(s), "FeedForward")
      s2 == Called(FeedBackward(s1), "FeedBackward")
  IN IF s1.err # "none" THEN s1
     ELSE [FeedForward(s2) EXCEPT !.calls = Append(s2.calls, "ComputeError")]

\* Lines 164-165
TrainStep(s) ==
  LET s1 == Called(FeedForward(s), "FeedForward")
  IN IF s1.err # "none" THEN s1 ELSE Called(FeedBackward(s1), "FeedBackward")

\* Line 163
RECURSIVE TrainLoop(_, _, _)
TrainLoop(s, i, iterations) ==
  IF s.err # "none" \/ ~(i < iterations) THEN s
  ELSE TrainLoop(TrainStep(s), i + 1, iterations)

\* Line 173
TrainReport(s) ==
  IF s.err # "none" THEN s
  ELSE LET s1 == ComputeError(s) IN [s1 EXCEPT !.calls = Append(s.calls, "ComputeError")]

Train(s, iterations) == TrainReport(TrainLoop(s, 0, iterations))

\* ------------------------------------------------------------ the inputs
\* The k-th r x c matrix of the values 0, 1/2 and 1.
Pattern(r, c, k) ==
  [i \in 1..r |-> [j \in 1..c |-> (Scale \div 2) * ((k + (i - 1) * c + (j - 1)) % 3)]]

\* k hidden widths, the first other than the input's width n.
Widths(k, n) == [j \in 1..k |-> 1 + ((n + j - 1) % MaxWidth)]

Init ==
  /\ \E B \in 1..MaxBatch, n \in 1..MaxWidth, m \in 1..MaxWidth,
        k \in 0..MaxHidden, p \in 0..MaxSeed :
       args = [rate |-> IF p % 2 = 0 THEN Scale ELSE Scale \div 2,
               input |-> Pattern(B, n, p + 2),
               output |-> Pattern(B, m, p + 1),
               hiddensNodes |-> Widths(k, n)]
  /\ net = NoNetwork
  /\ shared = FALSE
  /\ err = "none"
  /\ fb = NoPass
  /\ calls = <<>>
  /\ pre = NoNetwork
  /\ lastOp = [name |-> "none", n |-> 0, input |-> <<>>]
  /\ ret = <<>>
  /\ ops = 0

Cur == [net |-> net, shared |-> shared, err |-> err, fb |-> fb, calls |-> <<>>]

Constructed == lastOp.name # "none"

Done(name, n, input, s, r) ==
  /\ net' = s.net
  /\ shared' = s.shared
  /\ err' = s.err
  /\ fb' = s.fb
  /\ calls' = s.calls
  /\ pre' = net
  /\ lastOp' = [name |-> name, n |-> n, input |-> input]
  /\ ret' = IF s.err = "none" THEN r ELSE <<>>
  /\ ops' = ops + 1
  /\ UNCHANGED args

Ready == Constructed /\ err = "none" /\ ops <= MaxOps

DoCreateNetwork ==
  /\ ~Constructed
  /\ \E seed \in 0..MaxSeed :
       LET s == [Cur EXCEPT
                   !.net = CreateNetwork(args.rate, args.input, args.output,
                                         args.hiddensNodes, seed),
                   !.shared = TRUE]
       IN Done("CreateNetwork", 0, <<>>, s, <<>>)

DoFeedForward ==
  /\ Ready
  /\ \E s \in {FeedForward(Cur)} : Done("FeedForward", 0, <<>>, s, <<>>)

DoPredict ==
  /\ Ready
  /\ \E k \in 0..MaxSeed :
       \E input \in {Pattern(1, Columns(At(net.Layers, 0)), k)[1]} :
         \E s \in {Predict(Cur, input)} :
           Done("Predict", 0, input, s, IF s.err = "none" THEN PredictResult(s) ELSE <<>>)

DoFeedBackward ==
  /\ Ready
  /\ \E s \in {FeedBackward(Cur)} : Done("FeedBackward", 0, <<>>, s, <<>>)

DoComputeError ==
  /\ Ready
  /\ \E s \in {ComputeError(Cur)} : Done("ComputeError", 0, <<>>, s, ComputeErrorResult(s))

DoTrain ==
  /\ Ready
  /\ \E iterations \in 0..MaxIter :
       \E s \in {Train(Cur, iterations)} : Done("Train", iterations, <<>>, s, <<>>)

Next ==
  \/ DoCreateNetwork
  \/ DoFeedForward
  \/ DoFeedBackward
  \/ DoPredict
  \/ DoComputeError
  \/ DoTrain

Spec == Init /\ [][Next]_vars

\* ---------------------------------------------------------- properties
Last(n) == Len(n.Layers) - 1

HasShape(m, r, c) == Rows(m) = r /\ \A i \in 1..r : Len(m[i]) = c

AfterBackward == lastOp.name = "FeedBackward" \/ (lastOp.name = "Train" /\ lastOp.n > 0)

DerivEvents == SelectSeq(fb.events, LAMBDA e : e.ev = "deriv")

WriteEvents == SelectSeq(fb.events, LAMBDA e : e.ev = "write")

\* C1: CreateNetwork on a B x n input, a B x m output and k hidden widths
\* returns k+2 Layers and k+1 Weights and Biases; Layers[0] is the input,
\* Layers[j] is B x hiddensNodes[j-1] for 1 <= j <= k, Weights[i] is
\* columns(Layers[i]) x columns(Layers[i+1]) and Biases[i] is
\* rows(Layers[i]) x columns(Layers[i+1]).
C1_ConstructionShapes ==
  lastOp.name = "CreateNetwork" =>
    LET k == Len(args.hiddensNodes)
        B == Rows(args.input)
    IN /\ Len(net.Layers) = k + 2
       /\ Len(net.Weights) = k + 1
       /\ Len(net.Biases) = k + 1
       /\ At(net.Layers, 0) = args.input
       /\ \A j \in 1..k : HasShape(At(net.Layers, j), B, args.hiddensNodes[j])
       /\ \A i \in 0..k :
            /\ HasShape(At(net.Weights, i),
                        Columns(At(net.Layers, i)), Columns(At(net.Layers, i + 1)))
            /\ HasShape(At(net.Biases, i),
                        Rows(At(net.Layers, i)), Columns(At(net.Layers, i + 1)))

C1_Witness ==
  /\ lastOp.name = "CreateNetwork"
  /\ Len(args.hiddensNodes) = 2
  /\ Rows(args.input) = 2
  /\ Columns(args.input) # args.hiddensNodes[1]
  /\ args.hiddensNodes[1] # args.hiddensNodes[2]

\* C2: Output is never altered after construction: after any sequence of
\* calls, a FeedBackward before any FeedForward included, every entry of
\* network.Output equals the entry of the target passed to CreateNetwork.
C2_OutputImmutable == Constructed => net.Output = args.output

\* C3: after one FeedBackward, Weights[i] is its value before the call plus
\* Rate * dot(transpose(Layers[i]), delta_{i+1}) and Biases[i] its value
\* before the call plus Rate * delta_{i+1}, where delta_L =
\* (2 * (Output - Layers[L])) (.) (Layers[L] (.) (1 - Layers[L])) and
\* delta_l = dot(delta_{l+1}, transpose(Weights[l])) (.) (Layers[l] (.) (1 - Layers[l])),
\* all read as the call found them.
RECURSIVE ClaimedDelta(_, _)
ClaimedDelta(n, l) ==
  LET activation == At(n.Layers, l)
      slope == Multiplication(activation, ApplyFunction(activation, SubstractOne))
  IN IF l = Last(n)
     THEN Multiplication(ApplyFunction(Difference(n.Output, activation), MultiplyByTwo), slope)
     ELSE Multiplication(DotProduct(ClaimedDelta(n, l + 1), Transpose(At(n.Weights, l))), slope)

\* C3: every Weights[i] and Biases[i] moved by Rate times the gradient above.
C3_GradientStep ==
  (AfterBackward /\ err = "none") =>
    \A i \in 0..(Last(fb.pre) - 1) :
      LET delta == ClaimedDelta(fb.pre, i + 1)
      IN /\ At(net.Weights, i) =
              Sum(At(fb.pre.Weights, i),
                  ApplyRate(DotProduct(Transpose(At(fb.pre.Layers, i)), delta), fb.pre.Rate))
         /\ At(net.Biases, i) = Sum(At(fb.pre.Biases, i), ApplyRate(delta, fb.pre.Rate))

\* C4: one FeedBackward on a network of T transitions collects exactly T
\* Derivatives and writes every Weights[i] and Biases[i] exactly once: the
\* Derivative at position p, computed for layer L-p, is applied to index
\* T-p-1, so no index is skipped, written twice or out of range.
C4_EachTransitionOnce ==
  AfterBackward =>
    LET T == Last(fb.pre)
    IN /\ err = "none"
       /\ Len(DerivEvents) = T
       /\ Len(WriteEvents) = T
       /\ \A p \in 0..(T - 1) :
            /\ At(DerivEvents, p).p = p
            /\ At(DerivEvents, p).l = T - p
            /\ At(WriteEvents, p).p = p
            /\ At(WriteEvents, p).l = T - p - 1
       /\ \A i \in 0..(T - 1) :
            Cardinality({q \in 1..Len(WriteEvents) : WriteEvents[q].l = i}) = 1

C4_Witness == AfterBackward /\ err = "none" /\ Last(fb.pre) = 3 /\ Len(WriteEvents) = 3

C6_PredictAnyBatch ==
  lastOp.name = "Predict" =>
    /\ err = "none"
    /\ At(net.Layers, 0) = <<lastOp.input>>
    /\ Len(ret) = Columns(args.output)

\* C7: FeedForward, Predict and ComputeError leave every Weights[i], every
\* Biases[i] and Rate as they were.
C7_ForwardKeepsWeights ==
  lastOp.name \in {"FeedForward", "Predict", "ComputeError"} =>
    /\ net.Weights = pre.Weights
    /\ net.Biases = pre.Biases
    /\ net.Rate = pre.Rate

C7_Witness ==
  /\ lastOp.name \in {"FeedForward", "Predict", "ComputeError"}
  /\ err = "none"
  /\ Len(WriteEvents) > 0
  /\ \A seed \in 0..MaxSeed : net.Weights # CreateWeights(net.Layers, seed)
  /\ net.Weights = pre.Weights

\* C8: ComputeError on a Network whose Layers[last] equals Output when it is
\* called (a freshly constructed one, say) returns 0.
C8_ZeroWhenEqualBefore ==
  (lastOp.name = "ComputeError" /\ err = "none" /\ At(pre.Layers, Last(pre)) = pre.Output)
    => ret = <<0>>

\* C8 as amended: ComputeError returns 0 when Layers[last], as the forward
\* pass ComputeError runs first leaves it, equals Output.
C8_ZeroWhenEqualAfter ==
  (lastOp.name = "ComputeError" /\ err = "none" /\ At(net.Layers, Last(net)) = net.Output)
    => ret = <<0>>

C8_Witness ==
  /\ lastOp.name = "ComputeError"
  /\ err = "none"
  /\ At(net.Layers, Last(net)) = net.Output
  /\ \E i \in 1..Rows(net.Output) : \E j \in 1..Columns(net.Output) : net.Output[i][j] # 0
  /\ ret = <<0>>

\* C9: within one FeedBackward no Weights[i] or Biases[i] is written before
\* the last Derivative is computed, and every delta and adjustment reads the
\* Weights and Layers values the call found.
C9_WritesAfterDerivatives ==
  AfterBackward =>
    \A a, b \in 1..Len(fb.events) :
      (fb.events[a].ev = "write" /\ fb.events[b].ev = "deriv") => b < a

\* C9, second half: the operands of every Derivative are the values the call found.
C9_ReadsAsFound ==
  AfterBackward =>
    \A q \in 1..Len(DerivEvents) :
      LET e == DerivEvents[q]
      IN /\ e.act = At(fb.pre.Layers, e.l)
         /\ e.prev = At(fb.pre.Layers, e.l - 1)
         /\ e.l < Last(fb.pre) => e.W = At(fb.pre.Weights, e.l)

\* C9: writes only after the last Derivative, and reads of the values found.
C9_DeferredUpdate == C9_WritesAfterDerivatives /\ C9_ReadsAsFound

\* C10: with no hidden widths CreateNetwork, FeedForward and FeedBackward
\* complete without an index or shape error; FeedBackward's loop over the
\* earlier transitions runs zero times and its update loop applies exactly
\* one Derivative, to Weights[0] and Biases[0].
C10_NoHiddenLayer ==
  (Len(args.hiddensNodes) = 0 /\ lastOp.name \in {"CreateNetwork", "FeedForward", "FeedBackward"})
    => /\ err = "none"
       /\ Len(net.Layers) = 2
       /\ lastOp.name = "FeedBackward" =>
            /\ Len(fb.events) = 2
            /\ fb.events[1].ev = "deriv" /\ fb.events[1].p = 0 /\ fb.events[1].l = 1
            /\ fb.events[2].ev = "write" /\ fb.events[2].p = 0 /\ fb.events[2].l = 0
            /\ At(net.Weights, 0) =
                 Sum(At(pre.Weights, 0), ApplyRate(fb.events[1].Adjustment, pre.Rate))
            /\ At(net.Biases, 0) =
                 Sum(At(pre.Biases, 0), ApplyRate(fb.events[1].Delta, pre.Rate))

C10_Witness ==
  /\ Len(args.hiddensNodes) = 0
  /\ lastOp.name = "FeedBackward"
  /\ err = "none"
  /\ At(net.Weights, 0) # At(pre.Weights, 0)

====
